---- MODULE Spec2Model ----
(***************************************************************************)
(* GuardPlanner.py as a state machine.  The script is one sequential run:  *)
(* quota planning, preassignment, weekend allocation, weekday allocation,  *)
(* the single-weekend repair pass, printing and the rollover export.       *)
(* A date of the target month is its day number 1..num_days; 0 and         *)
(* num_days+1 stand for dates outside the month.  A person is identified   *)
(* by the position in the roster (names are unique keys).  Weekdays are    *)
(* Python's: Monday = 0 .. Sunday = 6.                                     *)
(***************************************************************************)
EXTENDS Integers, Sequences, FiniteSets

VARIABLES people, num_days, month_start_wd,
          target_counts, schedule, assigned_counts, weekend_counts,
          last_assigned, preassigned_set,
          pc, pi, todo, wi, di, people_with_one, ri,
          err, printed, next_data

vars == <<people, num_days, month_start_wd,
          target_counts, schedule, assigned_counts, weekend_counts,
          last_assigned, preassigned_set,
          pc, pi, todo, wi, di, people_with_one, ri,
          err, printed, next_data>>

inputs == <<people, num_days, month_start_wd>>

(* ------------------------------ bounds --------------------------------- *)
\* days of the short months of the input families
ShortDays == 8
\* days of the months with more people than a base quota of 2 allows
TinyDays == 4
\* days of the long months (three separate weekends need 14 days)
LongDays == 14
\* largest duties_last_month of an input person
MaxLast == 3

(* ----------------------------- constants ------------------------------- *)
UNASSIGNED == 0
NEVER == 999
SATURDAY == 5
WEEKEND_CAP == 2
SWAP_FROM == 3
MIN_WEEKEND_TARGET == 2

EmptyMap == [x \in {} |-> 0]

(* ------------------------------ calendar ------------------------------- *)
dates == 1..num_days

weekday(d) == (month_start_wd + d - 1) % 7

weekends == {d \in dates : weekday(d) >= SATURDAY}

SortedSeq(S) ==
  [i \in 1..Cardinality(S) |-> CHOOSE d \in S : Cardinality({e \in S : e < d}) = i - 1]

weekend_dates == SortedSeq(weekends)

\* variant: the upper end of the range test of line 95 is off by one day
InMonthPastEnd(d) == ~(d < 1 \/ d >= num_days + 2)

InMonth(d) == ~(d < 1 \/ d >= num_days + 1)

(* ---------------------------- quota planner ---------------------------- *)
total_days == num_days
total_ppl == Len(people)
base_quota == total_days \div total_ppl
extra == total_days % total_ppl

\* 0-based position of person i in sorted(people, key=duties_last_month,
\* reverse=True); the sort is stable, so equal keys keep roster order
SortedIndex(i) ==
  Cardinality({j \in 1..Len(people) :
      \/ people[j].duties_last_month > people[i].duties_last_month
      \/ /\ people[j].duties_last_month = people[i].duties_last_month
         /\ j < i})

Max(a, b) == IF a >= b THEN a ELSE b

\* variant: the reduction of line 65 is not floored at base_quota
QuotaUnfloored(i) ==
  LET quota == base_quota + (IF SortedIndex(i) < extra THEN 1 ELSE 0)
  IN  IF people[i].duties_last_month > base_quota
        THEN quota - 1
        ELSE quota

Quota(i) ==
  LET quota == base_quota + (IF SortedIndex(i) < extra THEN 1 ELSE 0)
  IN  IF people[i].duties_last_month > base_quota
        THEN Max(quota - 1, base_quota)
        ELSE quota

weekend_people == {i \in 1..Len(people) : people[i].needs_weekends}

TargetCounts ==
  [i \in 1..Len(people) |->
     IF i \in weekend_people THEN Max(Quota(i), MIN_WEEKEND_TARGET) ELSE Quota(i)]

(* ------------------------------- helpers ------------------------------- *)
days_since_last_duty(name, current_date) ==
  IF name \notin DOMAIN last_assigned THEN NEVER
  ELSE current_date - last_assigned[name]

\* variant: only the preceding day is compared (lines 87-88 left out)
violates_prev_only(name, date) ==
  LET prev_d == date - 1
  IN  prev_d \in DOMAIN schedule /\ schedule[prev_d] = name

violates_back_to_back(name, date) ==
  LET prev_d == date - 1
      next_d == date + 1
  IN  \/ prev_d \in DOMAIN schedule /\ schedule[prev_d] = name
      \/ next_d \in DOMAIN schedule /\ schedule[next_d] = name

Put(f, k, v) == [x \in DOMAIN f \cup {k} |-> IF x = k THEN v ELSE f[x]]

RECURSIVE LexLess(_, _)
LexLess(a, b) ==
  IF Len(a) = 0 THEN FALSE
  ELSE IF Head(a) < Head(b) THEN TRUE
  ELSE IF Head(a) > Head(b) THEN FALSE
  ELSE LexLess(Tail(a), Tail(b))

\* sorted(candidates, key=...)[0], keys being the function from each candidate
\* to its key: the first candidate in roster order whose key is minimal (the
\* sort is stable)
First(keys) ==
  CHOOSE c \in DOMAIN keys :
    \A o \in DOMAIN keys :
      ~LexLess(keys[o], keys[c]) /\ (keys[o] = keys[c] => c <= o)

(* --------------------------- PREASSIGN DATES --------------------------- *)
\* variant: a claimed date is overwritten instead of raising (lines 97-98)
NoDuplicateCheck(d) == FALSE

DuplicatePreassignment(d) == d \in DOMAIN schedule

\* one step of the loops of lines 93-104: one date of the current person
\* (a set is iterated in no fixed order), or the move to the next person
Preassign ==
  /\ pc = "preassign"
  /\ IF todo # {}
       THEN /\ UNCHANGED <<pi, wi>>
            /\ \E d \in todo :
                 IF ~InMonth(d)
                   THEN /\ todo' = todo \ {d}
                        /\ UNCHANGED <<schedule, preassigned_set, assigned_counts,
                                       last_assigned, weekend_counts, pc, err>>
                   ELSE IF DuplicatePreassignment(d)
                     THEN /\ pc' = "error"
                          /\ err' = d
                          /\ UNCHANGED <<schedule, preassigned_set, assigned_counts,
                                         last_assigned, weekend_counts, todo>>
                     ELSE /\ schedule' = Put(schedule, d, pi)
                          /\ preassigned_set' = preassigned_set \cup {d}
                          /\ assigned_counts' = [assigned_counts EXCEPT ![pi] = @ + 1]
                          /\ last_assigned' = Put(last_assigned, pi, d)
                          /\ weekend_counts' =
                               IF weekday(d) >= SATURDAY
                                 THEN [weekend_counts EXCEPT ![pi] = @ + 1]
                                 ELSE weekend_counts
                          /\ todo' = todo \ {d}
                          /\ UNCHANGED <<pc, err>>
       ELSE /\ UNCHANGED <<schedule, preassigned_set, assigned_counts,
                           last_assigned, weekend_counts, err>>
            /\ IF pi < Len(people)
                 THEN /\ pi' = pi + 1
                      /\ todo' = people[pi + 1].preassigned_dates
                      /\ UNCHANGED <<pc, wi>>
                 ELSE /\ pc' = "weekend"
                      /\ wi' = 1
                      /\ UNCHANGED <<pi, todo>>
  /\ UNCHANGED <<inputs, target_counts, di, people_with_one, ri, printed, next_data>>

(* ---------------------------- QUOTA PLANNER ---------------------------- *)
Plan ==
  /\ pc = "plan"
  /\ target_counts' = TargetCounts
  /\ pc' = "preassign"
  /\ pi' = 1
  /\ todo' = people[1].preassigned_dates
  /\ UNCHANGED <<inputs, schedule, assigned_counts, weekend_counts, last_assigned,
                 preassigned_set, wi, di, people_with_one, ri, err, printed, next_data>>

(* -------------------------- WEEKEND ASSIGNMENT ------------------------- *)
\* variant: the weekend allocator does not skip preassigned dates (lines 110-111)
WeekendNoSkip(date) == FALSE

WeekendSkip(date) == date \in preassigned_set

\* variant: the cap test of line 117 is inverted
WeekendStrictInverted(date) ==
  {p \in weekend_people :
     /\ date \notin people[p].unavailable_dates
     /\ ~violates_back_to_back(p, date)
     /\ weekend_counts[p] >= WEEKEND_CAP}

WeekendStrict(date) ==
  {p \in weekend_people :
     /\ date \notin people[p].unavailable_dates
     /\ ~violates_back_to_back(p, date)
     /\ weekend_counts[p] < WEEKEND_CAP}

WeekendRelaxed(date) ==
  {p \in weekend_people :
     /\ date \notin people[p].unavailable_dates
     /\ ~violates_back_to_back(p, date)}

WeekendCandidates(date) ==
  IF WeekendStrict(date) # {} THEN WeekendStrict(date) ELSE WeekendRelaxed(date)

\* variant: the gap enters the key without the minus sign of line 133
WeekendKeyNearest(x, date) ==
  <<weekend_counts[x], assigned_counts[x], days_since_last_duty(x, date),
    people[x].duties_last_month>>

WeekendKey(x, date) ==
  <<weekend_counts[x], assigned_counts[x], -days_since_last_duty(x, date),
    people[x].duties_last_month>>

WeekendChosen(date) ==
  First([x \in WeekendCandidates(date) |-> WeekendKey(x, date)])

Weekend ==
  /\ pc = "weekend"
  /\ IF wi > Len(weekend_dates)
       THEN /\ pc' = "weekday"
            /\ di' = 1
            /\ UNCHANGED <<wi, schedule, weekend_counts, assigned_counts, last_assigned>>
       ELSE LET date == weekend_dates[wi] IN
            /\ wi' = wi + 1
            /\ UNCHANGED <<pc, di>>
            /\ IF ~WeekendSkip(date) /\ WeekendCandidates(date) # {}
                 THEN LET chosen == WeekendChosen(date) IN
                      /\ schedule' = Put(schedule, date, chosen)
                      /\ weekend_counts' = [weekend_counts EXCEPT ![chosen] = @ + 1]
                      /\ assigned_counts' = [assigned_counts EXCEPT ![chosen] = @ + 1]
                      /\ last_assigned' = Put(last_assigned, chosen, date)
                 ELSE UNCHANGED <<schedule, weekend_counts, assigned_counts, last_assigned>>
  /\ UNCHANGED <<inputs, target_counts, preassigned_set, pi, todo, people_with_one,
                 ri, err, printed, next_data>>

(* -------------------------- WEEKDAY ASSIGNMENT ------------------------- *)
WeekdaySkip(date) == date \in DOMAIN schedule

OwnedByOther(p, date) ==
  /\ date \in people[p].preassigned_dates
  /\ ~(date \in DOMAIN schedule /\ schedule[date] = p)

\* variant: the strict pass leaves out the weekend eligibility test (lines 155-156)
WeekdayStrictAnyone(date) ==
  {p \in 1..Len(people) :
     /\ ~OwnedByOther(p, date)
     /\ date \notin people[p].unavailable_dates
     /\ ~violates_back_to_back(p, date)
     /\ ~(assigned_counts[p] >= target_counts[p])}

WeekdayStrict(date) ==
  {p \in 1..Len(people) :
     /\ ~OwnedByOther(p, date)
     /\ date \notin people[p].unavailable_dates
     /\ ~(date \in weekends /\ ~people[p].needs_weekends)
     /\ ~violates_back_to_back(p, date)
     /\ ~(assigned_counts[p] >= target_counts[p])}

\* variant: the relaxed pass also drops the weekend eligibility test (lines 171-172)
WeekdayRelaxedAnyone(date) ==
  {p \in 1..Len(people) :
     /\ ~OwnedByOther(p, date)
     /\ date \notin people[p].unavailable_dates
     /\ ~violates_back_to_back(p, date)}

\* variant: the relaxed pass also drops the availability test (lines 169-170)
WeekdayRelaxedUnavailable(date) ==
  {p \in 1..Len(people) :
     /\ ~OwnedByOther(p, date)
     /\ ~(date \in weekends /\ ~people[p].needs_weekends)
     /\ ~violates_back_to_back(p, date)}

WeekdayRelaxed(date) ==
  {p \in 1..Len(people) :
     /\ ~OwnedByOther(p, date)
     /\ date \notin people[p].unavailable_dates
     /\ ~(date \in weekends /\ ~people[p].needs_weekends)
     /\ ~violates_back_to_back(p, date)}

\* variant: the strict pass is left out, every date goes through the relaxed one
WeekdayCandidatesRelaxedOnly(date) == WeekdayRelaxed(date)

\* variant: the relaxed pass of lines 164-175 is left out
WeekdayCandidatesStrictOnly(date) == WeekdayStrict(date)

WeekdayCandidates(date) ==
  IF WeekdayStrict(date) # {} THEN WeekdayStrict(date) ELSE WeekdayRelaxed(date)

WeekdayKey(x, date) ==
  <<assigned_counts[x], people[x].duties_last_month, -days_since_last_duty(x, date)>>

WeekdayChosen(date) ==
  First([x \in WeekdayCandidates(date) |-> WeekdayKey(x, date)])

Weekday ==
  /\ pc = "weekday"
  /\ IF di > num_days
       THEN /\ pc' = "repair"
            /\ people_with_one' = SortedSeq({p \in weekend_people : weekend_counts[p] = 1})
            /\ ri' = 1
            /\ UNCHANGED <<di, schedule, weekend_counts, assigned_counts, last_assigned>>
       ELSE LET date == di IN
            /\ di' = di + 1
            /\ UNCHANGED <<pc, people_with_one, ri>>
            /\ IF WeekdaySkip(date)
                 THEN UNCHANGED <<schedule, weekend_counts, assigned_counts, last_assigned>>
                 ELSE IF WeekdayCandidates(date) # {}
                   THEN LET chosen == WeekdayChosen(date) IN
                        /\ schedule' = Put(schedule, date, chosen)
                        /\ assigned_counts' = [assigned_counts EXCEPT ![chosen] = @ + 1]
                        /\ last_assigned' = Put(last_assigned, chosen, date)
                        /\ weekend_counts' =
                             IF date \in weekends
                               THEN [weekend_counts EXCEPT ![chosen] = @ + 1]
                               ELSE weekend_counts
                   ELSE /\ schedule' = Put(schedule, date, UNASSIGNED)
                        /\ UNCHANGED <<weekend_counts, assigned_counts, last_assigned>>
  /\ UNCHANGED <<inputs, target_counts, preassigned_set, pi, todo, wi,
                 err, printed, next_data>>

(* ------------------- FIX SINGLE WEEKEND ASSIGNMENTS -------------------- *)
RepairSkip(date) == date \in preassigned_set

CanFill(p, date) ==
  /\ schedule[date] = UNASSIGNED
  /\ date \notin people[p].unavailable_dates
  /\ ~violates_back_to_back(p, date)

\* variant: a swap already takes from a holder of two weekends (line 214)
SwapThresholdTwo(holder) == weekend_counts[holder] >= WEEKEND_CAP

SwapThreshold(holder) == weekend_counts[holder] >= SWAP_FROM

CanSwap(p, date) ==
  /\ schedule[date] # UNASSIGNED
  /\ schedule[date] # p
  /\ SwapThreshold(schedule[date])
  /\ date \notin people[p].unavailable_dates
  /\ ~violates_back_to_back(p, date)

\* the weekend dates at which the scan of lines 198-225 would stop for p
RepairDates(p) ==
  {date \in weekends : ~RepairSkip(date) /\ (CanFill(p, date) \/ CanSwap(p, date))}

MinOf(S) == CHOOSE d \in S : \A e \in S : d <= e

\* variant: the swap leaves the previous holder's counter as it was
ReleaseForgotten(counts, old) == counts

\* lines 222-223: the previous holder of a swapped date gives one duty back
Release(counts, old) == [counts EXCEPT ![old] = @ - 1]

\* one iteration of the outer loop of line 197: the whole scan of one person
Repair ==
  /\ pc = "repair"
  /\ IF ri > Len(people_with_one)
       THEN /\ pc' = "output"
            /\ UNCHANGED <<ri, schedule, weekend_counts, assigned_counts, last_assigned>>
       ELSE LET p == people_with_one[ri] IN
            /\ ri' = ri + 1
            /\ UNCHANGED pc
            /\ IF RepairDates(p) = {}
                 THEN UNCHANGED <<schedule, weekend_counts, assigned_counts, last_assigned>>
                 ELSE LET date == MinOf(RepairDates(p))
                          old == schedule[date]
                      IN  /\ schedule' = Put(schedule, date, p)
                          /\ last_assigned' = Put(last_assigned, p, date)
                          /\ IF old = UNASSIGNED
                               THEN /\ weekend_counts' = [weekend_counts EXCEPT ![p] = @ + 1]
                                    /\ assigned_counts' = [assigned_counts EXCEPT ![p] = @ + 1]
                               ELSE /\ weekend_counts' =
                                         Release([weekend_counts EXCEPT ![p] = @ + 1], old)
                                    /\ assigned_counts' =
                                         Release([assigned_counts EXCEPT ![p] = @ + 1], old)
  /\ UNCHANGED <<inputs, target_counts, preassigned_set, pi, todo, wi, di,
                 people_with_one, err, printed, next_data>>

(* ------------------------------- output -------------------------------- *)
\* lines 227-228: the schedule lines, one per date of the month
Output ==
  /\ pc = "output"
  /\ printed' = [d \in dates |-> schedule[d]]
  /\ pc' = "export"
  /\ UNCHANGED <<inputs, target_counts, schedule, assigned_counts, weekend_counts,
                 last_assigned, preassigned_set, pi, todo, wi, di, people_with_one,
                 ri, err, next_data>>

\* the orders random.shuffle can leave the roster in
Shuffles == {f \in [1..Len(people) -> 1..Len(people)] :
               \A i, j \in 1..Len(people) : f[i] = f[j] => i = j}

\* variant: the seed carries last month's count over instead of this month's
NextRecordStale(p) ==
  [name |-> p,
   needs_weekends |-> (weekend_counts[p] = 0),
   unavailable_dates |-> {},
   duties_last_month |-> people[p].duties_last_month]

NextRecord(p) ==
  [name |-> p,
   needs_weekends |-> (weekend_counts[p] = 0),
   unavailable_dates |-> {},
   duties_last_month |-> assigned_counts[p]]

Export ==
  /\ pc = "export"
  /\ \E order \in Shuffles :
       next_data' = [i \in 1..Len(people) |-> NextRecord(order[i])]
  /\ pc' = "done"
  /\ UNCHANGED <<inputs, target_counts, schedule, assigned_counts, weekend_counts,
                 last_assigned, preassigned_set, pi, todo, wi, di, people_with_one,
                 ri, err, printed>>

(* ------------------------------- inputs -------------------------------- *)
\* The roster and the month are the input of one run.  The input families
\* below keep the state space finite; each varies part of the input.
AtMostOne(S) == {{}} \cup {{x} : x \in S}

AtMostTwo(S) == {{}} \cup {{x, y} : x \in S, y \in S}

Weekdays == 0..6

\* rosters without date constraints: flags and last month's duties vary
QuotaRosters ==
  UNION {[1..n -> [needs_weekends : BOOLEAN,
                   duties_last_month : 0..MaxLast,
                   unavailable_dates : {{}},
                   preassigned_dates : {{}}]] : n \in 1..3}

\* rosters of n people with no duties last month, whose preassigned and
\* unavailable dates are given as sets of <<person, date>> pairs
DatedRosters(n, prePairs, unavPairs) ==
  {[p \in 1..n |->
      [needs_weekends |-> f[p],
       duties_last_month |-> 0,
       unavailable_dates |-> {e[2] : e \in {x \in U : x[1] = p}},
       preassigned_dates |-> {e[2] : e \in {x \in P : x[1] = p}}]] :
    f \in [1..n -> BOOLEAN], P \in prePairs, U \in unavPairs}

\* two people, at most two preassignments in all (one date past the month's
\* end included), nobody unavailable
PreassignedRosters ==
  DatedRosters(2, AtMostTwo((1..2) \X (1..(ShortDays + 1))), {{}})

\* two people, at most two unavailable dates in all, no preassignment
UnavailableRosters ==
  DatedRosters(2, {{}}, AtMostTwo((1..2) \X (1..ShortDays)))

\* three people in a long month, at most one unavailable date in all
LongRosters ==
  DatedRosters(3, {{}}, AtMostOne((1..3) \X (1..LongDays)))

\* the balanced scenario: four people without weekends and without date
\* constraints in a month of exactly four weeks
BalancedLast == {0, 1, 8}

BalancedRosters ==
  [1..4 -> [needs_weekends : {FALSE},
            duties_last_month : BalancedLast,
            unavailable_dates : {{}},
            preassigned_dates : {{}}]]

\* three people in a month so short that the base quota is 1
TinyLast == {0, 2}

TinyRosters ==
  [1..3 -> [needs_weekends : BOOLEAN,
            duties_last_month : TinyLast,
            unavailable_dates : {{}},
            preassigned_dates : {{}}]]

InitState ==
  /\ target_counts = EmptyMap
  /\ schedule = EmptyMap
  /\ assigned_counts = [p \in 1..Len(people) |-> 0]
  /\ weekend_counts = [p \in 1..Len(people) |-> 0]
  /\ last_assigned = EmptyMap
  /\ preassigned_set = {}
  /\ pc = "plan"
  /\ pi = 0
  /\ todo = {}
  /\ wi = 0
  /\ di = 0
  /\ people_with_one = <<>>
  /\ ri = 0
  /\ err = 0
  /\ printed = EmptyMap
  /\ next_data = <<>>

Init ==
  /\ month_start_wd \in Weekdays
  /\ \/ /\ num_days = ShortDays
        /\ people \in QuotaRosters \cup PreassignedRosters \cup UnavailableRosters
     \/ /\ num_days = TinyDays
        /\ people \in TinyRosters
     \/ /\ num_days = LongDays
        /\ people \in LongRosters
     \/ /\ num_days = 28
        /\ people \in BalancedRosters
  /\ InitState

Next == Plan \/ Preassign \/ Weekend \/ Weekday \/ Repair \/ Output \/ Export

Spec == Init /\ [][Next]_vars

(* ------------------------------ properties ---------------------------- *)
persons == 1..Len(people)

Completed == pc = "done"

AfterRepair == pc \in {"output", "export", "done"}

Allocating == pc \in {"weekend", "weekday", "repair", "output", "export", "done"}

HeldBy(p) == {d \in DOMAIN schedule : schedule[d] = p}

Unfilled == {d \in DOMAIN schedule : schedule[d] = UNASSIGNED}

\* C1: when the run completes, the Schedule maps exactly the dates of the
\* month, each to a person of the roster or to UNASSIGNED, and no date outside
\* the month
C1_TotalCoverage ==
  Completed =>
    /\ DOMAIN schedule = 1..num_days
    /\ \A d \in DOMAIN schedule : schedule[d] \in persons \cup {UNASSIGNED}

\* a completed run whose input preassigned a date outside the month, with a
\* date held by a person and a date left UNASSIGNED
C1_Witness ==
  /\ Completed
  /\ \E p \in persons : \E d \in people[p].preassigned_dates : d > num_days
  /\ Unfilled # {}
  /\ \E p \in persons : HeldBy(p) # {}

\* C2: after the repair pass nobody holds two consecutive dates, unless both
\* dates were preassigned to that person
C2_NoDoubleBooking ==
  AfterRepair =>
    \A p \in persons : \A d \in 1..(num_days - 1) :
      (d \in HeldBy(p) /\ d + 1 \in HeldBy(p)) =>
        (d \in people[p].preassigned_dates /\ d + 1 \in people[p].preassigned_dates)

\* a finished schedule in which a person holds two consecutive preassigned
\* dates and also a date given by an allocator
C2_Witness ==
  /\ AfterRepair
  /\ \E p \in persons :
       /\ \E d \in 1..(num_days - 1) :
            {d, d + 1} \subseteq HeldBy(p) \cap people[p].preassigned_dates
       /\ HeldBy(p) \ preassigned_set # {}

\* C3: no weekend date of the Schedule is held by a person whose
\* needs_weekends is false, in any state from preassignment on
C3_WeekendExclusivity ==
  \A d \in DOMAIN schedule :
    (d \in weekends /\ schedule[d] # UNASSIGNED) => people[schedule[d]].needs_weekends

\* a person without needs_weekends holds a preassigned weekend date
C3_Reached ==
  \E d \in preassigned_set \cap weekends : ~people[schedule[d]].needs_weekends

\* C4: whatever an allocator or the repair pass has put into the Schedule is
\* held by a person available on that date: every date that was not
\* preassigned is UNASSIGNED or held by a person whose unavailable_dates does
\* not contain it
C4_AvailabilityHard ==
  \A d \in DOMAIN schedule \ preassigned_set :
    schedule[d] = UNASSIGNED \/ d \notin people[schedule[d]].unavailable_dates

\* the relaxed weekday pass has acted (somebody is above the target) and a
\* date on which a person is unavailable went to somebody else
C4_Witness ==
  /\ AfterRepair
  /\ \E p \in persons : assigned_counts[p] > target_counts[p]
  /\ \E q \in persons : \E d \in people[q].unavailable_dates :
       d \in DOMAIN schedule /\ schedule[d] \notin {q, UNASSIGNED}

\* the in-month date d was listed as preassigned by person p
Listed(p, d) == d \in people[p].preassigned_dates /\ InMonth(d)

DuplicateInput ==
  \E p, q \in persons : p # q /\ \E d \in 1..num_days :
    d \in people[p].preassigned_dates \cap people[q].preassigned_dates

\* C6: with a date preassigned to two different people the run never gets past
\* preassignment; the error names a date listed by two people and is raised
\* with nothing allocated and nothing emitted
C6_DuplicateFatal ==
  /\ DuplicateInput => pc \in {"plan", "preassign", "error"}
  /\ pc = "error" =>
       /\ \E p, q \in persons : p # q /\ Listed(p, err) /\ Listed(q, err)
       /\ DOMAIN schedule = preassigned_set
       /\ \A d \in DOMAIN schedule : Listed(schedule[d], d)
       /\ printed = EmptyMap
       /\ next_data = <<>>

\* the run has aborted on a duplicate preassignment
C6_Witness == pc = "error" /\ err \in preassigned_set /\ DuplicateInput

\* C7: of two people with the same needs_weekends flag, the one with strictly
\* more duties last month gets a target that is not larger
C7_QuotaMonotone ==
  pc # "plan" =>
    \A a, b \in persons :
      (/\ people[a].needs_weekends = people[b].needs_weekends
       /\ people[a].duties_last_month > people[b].duties_last_month)
        => target_counts[a] <= target_counts[b]

\* the number of weekend-needing people with exactly one weekend
SingleWeekenders ==
  Cardinality({p \in weekend_people : weekend_counts[p] = 1})

\* C8: after the repair pass no more weekend-needing people have exactly one
\* weekend than before it, and no repair step brings a person from 0 or from
\* 2 or more weekends to exactly 1
C8_WeekendParity ==
  /\ [](AfterRepair => SingleWeekenders <= Len(people_with_one))
  /\ [][pc = "repair" =>
          \A p \in persons : weekend_counts[p] # 1 => weekend_counts'[p] # 1]_vars

\* the repair pass has swapped: fewer people with exactly one weekend than
\* before it
C8_Witness == AfterRepair /\ SingleWeekenders < Len(people_with_one)

\* four people, none with needs_weekends, no unavailable and no preassigned
\* dates, a month of 28 days
BalancedScenario ==
  /\ num_days = 28
  /\ Len(people) = 4
  /\ \A p \in persons :
       /\ ~people[p].needs_weekends
       /\ people[p].unavailable_dates = {}
       /\ people[p].preassigned_dates = {}

\* C9 as stated: in the balanced scenario every target is 7 and the run ends
\* with everybody at 7 duties and no UNASSIGNED date
C9_BalancedAsStated ==
  BalancedScenario =>
    /\ pc # "plan" => \A p \in persons : target_counts[p] = 7
    /\ Completed =>
         /\ \A p \in persons : assigned_counts[p] = 7
         /\ Unfilled = {}

\* C9 amended: in the balanced scenario every target is 7, and the run ends
\* with the 8 weekend dates UNASSIGNED, every weekday held by a person and
\* everybody at 5 duties
C9_Balanced ==
  BalancedScenario =>
    /\ pc # "plan" => \A p \in persons : target_counts[p] = 7
    /\ Completed =>
         /\ \A p \in persons : assigned_counts[p] = 5
         /\ Unfilled = weekends
         /\ Cardinality(weekends) = 8

\* a completed run of the balanced scenario
C9_Witness == BalancedScenario /\ Completed /\ Cardinality(Unfilled) = 8

\* the input preassigns two consecutive dates of the month to one person
AdjacentPreassignment ==
  \E p \in persons : \E d \in 1..(num_days - 1) :
    {d, d + 1} \subseteq people[p].preassigned_dates

\* C10: with two consecutive dates preassigned to one person the run fails
\* during preassignment and never holds both dates in the Schedule
C10_AdjacentRejected ==
  AdjacentPreassignment =>
    /\ pc \in {"plan", "preassign", "error"}
    /\ \A p \in persons : \A d \in 1..(num_days - 1) :
         ~({d, d + 1} \subseteq HeldBy(p) \cap people[p].preassigned_dates)

\* C11: the rollover seed has exactly one record per person of the roster,
\* with duties_last_month equal to the person's assigned count at the end of
\* the run and no unavailable dates, in whatever order the records come
C11_Rollover ==
  Completed =>
    /\ Len(next_data) = Len(people)
    /\ \A p \in persons :
         /\ Cardinality({i \in 1..Len(next_data) : next_data[i].name = p}) = 1
         /\ \A i \in 1..Len(next_data) :
              next_data[i].name = p =>
                /\ next_data[i].duties_last_month = assigned_counts[p]
                /\ next_data[i].unavailable_dates = {}

\* a seed emitted out of roster order after a run with a repair swap, for a
\* person whose duties differ from last month's
C11_Witness ==
  /\ Completed
  /\ next_data[1].name # 1
  /\ SingleWeekenders < Len(people_with_one)
  /\ \E p \in persons : assigned_counts[p] # people[p].duties_last_month

\* the people strictly before p when the roster is ordered by descending
\* duties_last_month, ties in roster order
Before(p) ==
  {q \in persons :
     \/ people[q].duties_last_month > people[p].duties_last_month
     \/ people[q].duties_last_month = people[p].duties_last_month /\ q < p}

\* the target the quota rule gives person p
ExpectedTarget(p) ==
  LET base == num_days \div Len(people)
      rest == num_days % Len(people)
      plain == IF Cardinality(Before(p)) < rest /\ ~(people[p].duties_last_month > base)
                 THEN base + 1 ELSE base
  IN  IF people[p].needs_weekends /\ plain < 2 THEN 2 ELSE plain

HoldsNeighbour(p, date) ==
  \/ date - 1 \in DOMAIN schedule /\ schedule[date - 1] = p
  \/ date + 1 \in DOMAIN schedule /\ schedule[date + 1] = p

\* person p is available on the date, weekend-eligible for it and free of
\* adjacency conflict in the current Schedule
Passes(p, date) ==
  /\ date \notin people[p].unavailable_dates
  /\ (weekday(date) >= SATURDAY => people[p].needs_weekends)
  /\ ~HoldsNeighbour(p, date)

\* C13: when the weekday allocator gives a date to a person who is already at
\* or above the target, no person who is available, weekend-eligible and free
\* of adjacency conflict is still below the target
C13_OverQuotaOnlyRelaxed ==
  [][(/\ pc = "weekday"
      /\ di \notin DOMAIN schedule
      /\ di \in DOMAIN schedule'
      /\ schedule'[di] \in persons
      /\ assigned_counts[schedule'[di]] >= target_counts[schedule'[di]])
       => ~\E p \in persons :
             Passes(p, di) /\ assigned_counts[p] < target_counts[p]]_vars

\* the weekday allocator has just given a weekday to a person who was at the
\* target already
C13_Witness ==
  /\ pc = "weekday"
  /\ di > 1
  /\ di - 1 \notin weekends
  /\ di - 1 \notin preassigned_set
  /\ schedule[di - 1] \in persons
  /\ last_assigned[schedule[di - 1]] = di - 1
  /\ assigned_counts[schedule[di - 1]] > target_counts[schedule[di - 1]]

\* C14: when the weekend allocator gives a weekend date to a person who has 2
\* or more weekends already, no weekend-needing person who is available and
\* free of adjacency conflict has fewer than 2 weekends
C14_CapLastResort ==
  [][(/\ pc = "weekend"
      /\ wi <= Len(weekend_dates)
      /\ weekend_dates[wi] \notin DOMAIN schedule
      /\ weekend_dates[wi] \in DOMAIN schedule'
      /\ weekend_counts[schedule'[weekend_dates[wi]]] >= 2)
       => ~\E p \in persons :
             /\ people[p].needs_weekends
             /\ weekend_dates[wi] \notin people[p].unavailable_dates
             /\ ~HoldsNeighbour(p, weekend_dates[wi])
             /\ weekend_counts[p] < 2]_vars

\* the weekend allocator has just given a third weekend to a person although
\* another weekend-needing person has fewer than 2
C14_Witness ==
  /\ pc = "weekend"
  /\ wi > 1
  /\ weekend_dates[wi - 1] \in DOMAIN schedule \ preassigned_set
  /\ weekend_counts[schedule[weekend_dates[wi - 1]]] >= 3
  /\ \E p \in persons : people[p].needs_weekends /\ weekend_counts[p] < 2

\* C15: the weekday allocator marks the date it processes UNASSIGNED exactly
\* when every person is unavailable on it, or not weekend-eligible for it, or
\* holds the day before or after; otherwise the date goes to a person
C15_UnassignedIffExhausted ==
  [][(/\ pc = "weekday"
      /\ di <= num_days
      /\ di \notin DOMAIN schedule)
       => /\ di \in DOMAIN schedule'
          /\ schedule'[di] \in persons \cup {UNASSIGNED}
          /\ schedule'[di] = UNASSIGNED <=> \A p \in persons : ~Passes(p, di)]_vars

\* the weekday allocator has just marked a weekday UNASSIGNED in a roster of
\* several people, one of them unavailable that day
C15_Witness ==
  /\ pc = "weekday"
  /\ di > 1
  /\ di - 1 \notin weekends
  /\ schedule[di - 1] = UNASSIGNED
  /\ Len(people) >= 2
  /\ \E p \in persons : di - 1 \in people[p].unavailable_dates

\* the days since the last duty of p, a person never assigned counting as
\* a gap larger than any gap between two dates of the month
Gap(p, date) ==
  IF p \in DOMAIN last_assigned THEN date - last_assigned[p] ELSE num_days

\* the tuple the weekend allocator minimises
ChoiceTuple(p, date) ==
  <<weekend_counts[p], assigned_counts[p], 0 - Gap(p, date),
    people[p].duties_last_month>>

\* C16: for a weekend date that is not preassigned and has candidates, the
\* weekend allocator commits a candidate whose tuple (weekendCount,
\* assignedCount, minus the gap since the last duty, duties_last_month) is
\* minimal, the earliest in roster order among equals; the commit raises that
\* person's two counters by 1, sets the last assigned date and nothing else
C16_WeekendChoice ==
  [][(/\ pc = "weekend"
      /\ wi <= Len(weekend_dates)
      /\ weekend_dates[wi] \notin preassigned_set
      /\ WeekendCandidates(weekend_dates[wi]) # {})
       => LET date == weekend_dates[wi]
              q == schedule'[date]
          IN  /\ date \in DOMAIN schedule'
              /\ q \in WeekendCandidates(date)
              /\ \A o \in WeekendCandidates(date) :
                   /\ ~LexLess(ChoiceTuple(o, date), ChoiceTuple(q, date))
                   /\ ChoiceTuple(o, date) = ChoiceTuple(q, date) => q <= o
              /\ \A o \in persons :
                   /\ weekend_counts'[o] = weekend_counts[o] + (IF o = q THEN 1 ELSE 0)
                   /\ assigned_counts'[o] = assigned_counts[o] + (IF o = q THEN 1 ELSE 0)
              /\ last_assigned'[q] = date
              /\ \A o \in DOMAIN last_assigned' \ {q} :
                   o \in DOMAIN last_assigned /\ last_assigned'[o] = last_assigned[o]]_vars

\* the weekend allocator has just committed a date for which another
\* candidate was level on weekends and duties, so that the gap decided
C16_Witness ==
  /\ pc = "weekend"
  /\ wi > 1
  /\ weekend_dates[wi - 1] \in DOMAIN schedule \ preassigned_set
  /\ LET date == weekend_dates[wi - 1]
         q == schedule[date]
     IN  \E o \in weekend_people \ {q} :
           /\ weekend_counts[o] = weekend_counts[q] - 1
           /\ assigned_counts[o] = assigned_counts[q] - 1
           /\ assigned_counts[o] >= 1
           /\ date \notin people[o].unavailable_dates
           /\ ~HoldsNeighbour(o, date)

RECURSIVE SumOver(_, _)
SumOver(f, S) ==
  IF S = {} THEN 0
  ELSE LET x == CHOOSE y \in S : TRUE IN f[x] + SumOver(f, S \ {x})

\* C17: in every state each person's assigned count is the number of dates
\* the Schedule maps to the person and the weekend count the number of weekend
\* dates among them; no counter is negative, and at the end of the run the
\* assigned counts and the UNASSIGNED dates add up to the days of the month
C17_CountersAgree ==
  /\ \A p \in persons :
       /\ assigned_counts[p] = Cardinality(HeldBy(p))
       /\ weekend_counts[p] = Cardinality(HeldBy(p) \cap weekends)
       /\ assigned_counts[p] >= 0
       /\ weekend_counts[p] >= 0
  /\ Completed =>
       SumOver(assigned_counts, persons) + Cardinality(Unfilled) = num_days

\* a completed run in which the repair pass swapped and somebody ended above
\* the target, with somebody at two weekends
C17_Witness ==
  /\ Completed
  /\ SingleWeekenders < Len(people_with_one)
  /\ \E p \in persons : assigned_counts[p] > target_counts[p]
  /\ \E p \in persons : weekend_counts[p] >= 2

\* C18: the weekday allocator marks every weekend date that has no entry
\* UNASSIGNED and puts no person on a weekend date, and no step of the two
\* allocators changes an entry the Schedule already has
C18_WeekdayNeverFillsWeekend ==
  /\ [][(pc = "weekday" /\ di <= num_days /\ di \in weekends /\ di \notin DOMAIN schedule)
          => (di \in DOMAIN schedule' /\ schedule'[di] = UNASSIGNED)]_vars
  /\ [][pc = "weekday" =>
          \A d \in weekends :
            (d \in DOMAIN schedule' /\ schedule'[d] \in persons)
              => (d \in DOMAIN schedule /\ schedule[d] = schedule'[d])]_vars
  /\ [][(pc = "weekend" \/ pc = "weekday") =>
          (\A d \in DOMAIN schedule :
             (d \in DOMAIN schedule' /\ schedule'[d] = schedule[d]))]_vars

\* before the repair pass a weekend date is UNASSIGNED although a
\* weekend-needing person is available on it (adjacency kept everybody off)
C18_Witness ==
  /\ pc = "repair"
  /\ ri = 1
  /\ \E d \in weekends :
       /\ schedule[d] = UNASSIGNED
       /\ \E p \in weekend_people : d \notin people[p].unavailable_dates

====
